---- MODULE Spec2Model ----
(***************************************************************************)
(* Model of the school-lunch menu converters of automated-tasks:           *)
(*   fetch_from_json.py    (JSON file  -> month window -> events -> ICS)   *)
(*   fetch_menu.py         (API payload -> MenuParser -> events -> ICS)    *)
(*   fetch_menu_simple.py  (current + next month window, day parser)       *)
(*   fetch_menu_pdf.py     (PDF text  -> line scan -> events -> ICS)       *)
(* Python values are modelled as follows: a dict is a TLA+ function whose  *)
(* DOMAIN is the set of keys present, a list is a sequence, a str is a     *)
(* string, a datetime at midnight is a record [year, month, day].          *)
(***************************************************************************)
EXTENDS Integers, Sequences, FiniteSets, TLC

\* ------------------------------------------------------------------------
\* Bounds of the model
\* ------------------------------------------------------------------------
NumYears == 2
MaxMenus == 2
MaxDays == 2
MaxEntries == 2
MaxAhead == 3
MaxClock == 1
MaxRuns == 2
MaxLines == 3

\* ------------------------------------------------------------------------
\* Calendar arithmetic of datetime / timedelta
\* ------------------------------------------------------------------------
IsLeap(y) == (y % 4 = 0) /\ ((y % 100 # 0) \/ (y % 400 = 0))

DaysInMonth(y, m) ==
    IF m = 2 THEN (IF IsLeap(y) THEN 29 ELSE 28)
    ELSE IF m \in {4, 6, 9, 11} THEN 30 ELSE 31

\* datetime(year, month, day) raises ValueError unless this holds
ValidDate(y, m, d) ==
    /\ y \in Nat /\ m \in 1..12 /\ y >= 1
    /\ d \in 1..DaysInMonth(y, m)

MkDate(y, m, d) == [year |-> y, month |-> m, day |-> d]

\* days before January 1 of year y, counted from 0001-01-01
DaysBeforeYear(year) ==
    LET y == year - 1
    IN  y * 365 + (y \div 4) - (y \div 100) + (y \div 400)

\* days of the year before the first day of month m (m = 13: the whole year)
DaysBeforeMonth(y, m) ==
    <<0, 31, 59, 90, 120, 151, 181, 212, 243, 273, 304, 334, 365>>[m]
    + (IF m > 2 /\ IsLeap(y) THEN 1 ELSE 0)

\* date.toordinal(): 0001-01-01 is day 1
Ordinal(dt) == DaysBeforeYear(dt.year) + DaysBeforeMonth(dt.year, dt.month) + dt.day

\* date.fromordinal(n), by the 400/100/4/1-year cycles of the calendar
FromOrdinal(ord) ==
    LET n0 == ord - 1
        n400 == n0 \div 146097
        r400 == n0 % 146097
        n100 == r400 \div 36524
        r100 == r400 % 36524
        n4 == r100 \div 1461
        r4 == r100 % 1461
        n1 == r4 \div 365
        n == r4 % 365
        year == n400 * 400 + 1 + n100 * 100 + n4 * 4 + n1
        month == CHOOSE m \in 1..12 :
                    DaysBeforeMonth(year, m) <= n /\ n < DaysBeforeMonth(year, m + 1)
    IN  IF n1 = 4 \/ n100 = 4 THEN MkDate(year - 1, 12, 31)
        ELSE MkDate(year, month, n - DaysBeforeMonth(year, month) + 1)

\* variant: the day number is incremented without carrying into the month
AddDays_NoCarry(dt, n) == MkDate(dt.year, dt.month, dt.day + n)

\* dt + timedelta(days=n)
AddDays(dt, n) == FromOrdinal(Ordinal(dt) + n)

\* dt1 < dt2 on dates
DateLess(a, b) ==
    \/ a.year < b.year
    \/ a.year = b.year /\ a.month < b.month
    \/ a.year = b.year /\ a.month = b.month /\ a.day < b.day

Years == 2024..(2023 + NumYears)

AllDates == { dt \in [year : Years, month : 1..12, day : 1..31] :
                 ValidDate(dt.year, dt.month, dt.day) }

\* ------------------------------------------------------------------------
\* strftime('%Y%m%d')
\* ------------------------------------------------------------------------
ZeroPad(n, width) ==
    LET s == ToString(n)
    IN  IF Len(s) >= width THEN s
        ELSE IF width - Len(s) = 1 THEN "0" \o s
        ELSE IF width - Len(s) = 2 THEN "00" \o s
        ELSE "000" \o s

\* variant: day and month in the wrong order ('%Y%d%m')
StrftimeYdm(dt) == ZeroPad(dt.year, 4) \o ZeroPad(dt.day, 2) \o ZeroPad(dt.month, 2)

StrftimeYmd(dt) == ZeroPad(dt.year, 4) \o ZeroPad(dt.month, 2) \o ZeroPad(dt.day, 2)

UidSuffix == "-lunch@automated-tasks"

\* uid = f"{date.strftime('%Y%m%d')}-lunch@automated-tasks"
EventUid(dt) == StrftimeYmd(dt) \o UidSuffix

\* ------------------------------------------------------------------------
\* Python values
\* ------------------------------------------------------------------------
\* None where a str is expected / None where an int is expected
None == "<None>"
NoneInt == -1

\* truthiness of a str-or-None value
Truthy(v) == v # None /\ v # ""

\* a str item of a list
StrItem(s) == [t |-> "str", v |-> s]
\* a dict item of a list: its key/value pairs in insertion order
DictItem(pairs) == [t |-> "dict", v |-> pairs]

\* isinstance(item, dict)
IsDict(item) == item.t = "dict"

\* item.get(key) on a dict item
RECURSIVE PairsGet(_, _)
PairsGet(pairs, key) ==
    IF pairs = <<>> THEN None
    ELSE IF Head(pairs)[1] = key THEN Head(pairs)[2]
    ELSE PairsGet(Tail(pairs), key)

ItemGet(item, key) == PairsGet(item.v, key)

\* sep.join(strs)
RECURSIVE Join(_, _)
Join(sep, strs) ==
    IF strs = <<>> THEN ""
    ELSE IF Len(strs) = 1 THEN strs[1]
    ELSE strs[1] \o sep \o Join(sep, Tail(strs))

\* repr() of a str-or-None value inside a dict
ReprValue(v) == IF v = None THEN "None" ELSE "'" \o v \o "'"

RECURSIVE ReprPairs(_)
ReprPairs(pairs) ==
    IF pairs = <<>> THEN <<>>
    ELSE <<"'" \o Head(pairs)[1] \o "': " \o ReprValue(Head(pairs)[2])>>
         \o ReprPairs(Tail(pairs))

\* str(item)
StrOf(item) ==
    IF IsDict(item) THEN "{" \o Join(", ", ReprPairs(item.v)) \o "}"
    ELSE item.v

\* d.get(key, default) on a dict modelled as a function
Get(d, key, default) == IF key \in DOMAIN d THEN d[key] ELSE default

\* BeautifulSoup(html, 'html.parser').get_text(strip=True)
HtmlText(html) ==
    CASE html = "<p>Soup</p>" -> "Soup"
      [] html = "<p> </p>" -> ""
      [] OTHER -> html

\* ------------------------------------------------------------------------
\* fetch_from_json.py: extract_menu_items
\* ------------------------------------------------------------------------
possible_keys == <<"menu_items", "items", "recipes", "menuItems", "recipeItems">>

\* name = item.get('name') or item.get('recipeName') or item.get('text')
\*        or item.get('label') or str(item)
ItemName(item) ==
    IF Truthy(ItemGet(item, "name")) THEN ItemGet(item, "name")
    ELSE IF Truthy(ItemGet(item, "recipeName")) THEN ItemGet(item, "recipeName")
    ELSE IF Truthy(ItemGet(item, "text")) THEN ItemGet(item, "text")
    ELSE IF Truthy(ItemGet(item, "label")) THEN ItemGet(item, "label")
    ELSE StrOf(item)

\* the inner loop "for item in day_entry[key]"
RECURSIVE ItemLines(_)
ItemLines(list) ==
    IF list = <<>> THEN <<>>
    ELSE LET item == Head(list)
         IN  (IF IsDict(item)
              THEN (IF Truthy(ItemName(item)) THEN <<ItemName(item)>> ELSE <<>>)
              ELSE <<StrOf(item)>>)
             \o ItemLines(Tail(list))

\* the loop "for key in possible_keys" from position k, with its break
RECURSIVE FirstPopulated(_, _)
FirstPopulated(day_entry, k) ==
    IF k > Len(possible_keys) THEN <<>>
    ELSE IF possible_keys[k] \in DOMAIN day_entry /\ day_entry[possible_keys[k]] # <<>>
         THEN ItemLines(day_entry[possible_keys[k]])
         ELSE FirstPopulated(day_entry, k + 1)

extract_menu_items(day_entry) ==
    LET items == FirstPopulated(day_entry, 1)
    IN  IF items = <<>> /\ "html" \in DOMAIN day_entry
        THEN (IF HtmlText(day_entry["html"]) # "" THEN <<HtmlText(day_entry["html"])>>
              ELSE <<>>)
        ELSE items

\* ------------------------------------------------------------------------
\* fetch_from_json.py: parse_menu_to_events
\* ------------------------------------------------------------------------
DefaultTitle == "School Lunch"

\* day_num = day_entry.get('day') or day_entry.get('dayNum')   (0 is falsy)
DayNum(day_entry) ==
    IF Get(day_entry, "day", 0) # 0 THEN day_entry["day"]
    ELSE Get(day_entry, "dayNum", 0)

\* the body of "for day_entry in menu['days']": the events one entry adds
DayEvents(year, month, day_entry) ==
    IF DayNum(day_entry) = 0 THEN <<>>
    ELSE IF ~ValidDate(year, month, DayNum(day_entry)) THEN <<>>
    ELSE IF extract_menu_items(day_entry) = <<>> THEN <<>>
    ELSE << [date |-> MkDate(year, month, DayNum(day_entry)),
             title |-> DefaultTitle,
             description |-> Join("\n", extract_menu_items(day_entry))] >>

RECURSIVE DaysEvents(_, _, _)
DaysEvents(year, month, days) ==
    IF days = <<>> THEN <<>>
    ELSE DayEvents(year, month, Head(days)) \o DaysEvents(year, month, Tail(days))

\* variant: the zero-indexed month is used as it is
parse_menu_to_events_ZeroIndexedMonth(menu) ==
    IF "days" \notin DOMAIN menu \/ menu["days"] = <<>> THEN <<>>
    ELSE DaysEvents(Get(menu, "year", NoneInt), Get(menu, "month", 0), menu["days"])

parse_menu_to_events(menu) ==
    IF "days" \notin DOMAIN menu \/ menu["days"] = <<>> THEN <<>>
    ELSE DaysEvents(Get(menu, "year", NoneInt), Get(menu, "month", 0) + 1, menu["days"])

\* ------------------------------------------------------------------------
\* fetch_from_json.py: get_current_and_upcoming_menus
\* ------------------------------------------------------------------------
\* variant: the window starts one step of 32 days before now
TargetMonth_FromPrevious(now, i) ==
    LET date == AddDays(now, 32 * (i - 1))
    IN  <<date.year, date.month - 1>>

\* one iteration of "for i in range(months_ahead + 1)"
TargetMonth(now, i) ==
    LET date == AddDays(now, 32 * i)
    IN  <<date.year, date.month - 1>>

target_months(now, months_ahead) ==
    [i \in 1..(months_ahead + 1) |-> TargetMonth(now, i - 1)]

InTargets(menu, targets) ==
    \E k \in 1..Len(targets) :
        targets[k] = <<Get(menu, "year", NoneInt), Get(menu, "month", NoneInt)>>

RECURSIVE MatchingMenus(_, _)
MatchingMenus(list, targets) ==
    IF list = <<>> THEN <<>>
    ELSE (IF InTargets(Head(list), targets) THEN <<Head(list)>> ELSE <<>>)
         \o MatchingMenus(Tail(list), targets)

get_current_and_upcoming_menus(menu_data, now, months_ahead) ==
    IF "menus" \notin DOMAIN menu_data THEN <<>>
    ELSE MatchingMenus(menu_data["menus"], target_months(now, months_ahead))

\* ------------------------------------------------------------------------
\* fetch_menu_simple.py: SchoolMenuFetcher.get_current_and_next_month_menus
\* ------------------------------------------------------------------------
current_and_next_months(now) ==
    LET next_month_date == AddDays(now, 32)
    IN  << <<now.year, now.month - 1>>,
           <<next_month_date.year, next_month_date.month - 1>> >>

get_current_and_next_month_menus(menu_type_data, now) ==
    IF "menus" \notin DOMAIN menu_type_data THEN <<>>
    ELSE MatchingMenus(menu_type_data["menus"], current_and_next_months(now))

\* ------------------------------------------------------------------------
\* fetch_menu_simple.py: SchoolMenuFetcher.parse_menu_days
\* ------------------------------------------------------------------------
\* key in item, on a dict item
RECURSIVE PairsHas(_, _)
PairsHas(pairs, key) ==
    IF pairs = <<>> THEN FALSE
    ELSE Head(pairs)[1] = key \/ PairsHas(Tail(pairs), key)

\* item.get(key, default) on a dict item: the default only when the key is
\* absent
ItemGetOr(item, key, default) ==
    IF PairsHas(item.v, key) THEN PairsGet(item.v, key) ELSE default

\* item.get('name', item.get(second, str(item))) for a dict, str(item)
\* otherwise; second is 'text' under menu_items and items, 'recipeName'
\* under recipes
SimpleItemName(item, second) ==
    IF IsDict(item) THEN ItemGetOr(item, "name", ItemGetOr(item, second, StrOf(item)))
    ELSE StrOf(item)

\* the loops "for item in day[key]: items.append(...)"
SimpleItemLines(list, second) == [k \in DOMAIN list |-> SimpleItemName(list[k], second)]

\* if 'menu_items' in day ... elif 'items' in day ... elif 'recipes' in day
SimpleDayItems(day) ==
    IF "menu_items" \in DOMAIN day THEN SimpleItemLines(day["menu_items"], "text")
    ELSE IF "items" \in DOMAIN day THEN SimpleItemLines(day["items"], "text")
    ELSE IF "recipes" \in DOMAIN day THEN SimpleItemLines(day["recipes"], "recipeName")
    ELSE <<>>

\* day_num = day.get('day', day.get('dayNum'))
SimpleDayNum(day) == IF "day" \in DOMAIN day THEN day["day"] ELSE Get(day, "dayNum", 0)

\* the body of "for day in menu_data['days']"; '\n'.join(items) raises
\* TypeError on a None item, and except Exception: continue drops the entry
SimpleDayEvents(year, month, day) ==
    IF SimpleDayNum(day) = 0 THEN <<>>
    ELSE IF ~ValidDate(year, month, SimpleDayNum(day)) THEN <<>>
    ELSE IF SimpleDayItems(day) = <<>> THEN <<>>
    ELSE IF \E k \in DOMAIN SimpleDayItems(day) : SimpleDayItems(day)[k] = None THEN <<>>
    ELSE << [date |-> MkDate(year, month, SimpleDayNum(day)),
             title |-> DefaultTitle,
             description |-> Join("\n", SimpleDayItems(day))] >>

RECURSIVE SimpleDaysEvents(_, _, _)
SimpleDaysEvents(year, month, days) ==
    IF days = <<>> THEN <<>>
    ELSE SimpleDayEvents(year, month, Head(days))
         \o SimpleDaysEvents(year, month, Tail(days))

\* parse_menu_days(menu_data); the year defaults to datetime.now().year
parse_menu_days(menu_data, now) ==
    IF "days" \notin DOMAIN menu_data \/ menu_data["days"] = <<>> THEN <<>>
    ELSE SimpleDaysEvents(Get(menu_data, "year", now.year),
                          Get(menu_data, "month", 0) + 1, menu_data["days"])

\* ------------------------------------------------------------------------
\* generate_ics (fetch_from_json.py; the same body in every script)
\* ------------------------------------------------------------------------
\* variant: the uid also carries the time the block was generated
EventBlock_StampedUid(event_data, stamp) ==
    [summary |-> event_data.title,
     description |-> event_data.description,
     dtstart |-> event_data.date,
     dtend |-> AddDays(event_data.date, 1),
     uid |-> StrftimeYmd(event_data.date) \o ToString(stamp) \o UidSuffix,
     dtstamp |-> stamp]

\* one iteration of "for event_data in events": the VEVENT block
EventBlock(event_data, stamp) ==
    [summary |-> event_data.title,
     description |-> event_data.description,
     dtstart |-> event_data.date,
     dtend |-> AddDays(event_data.date, 1),
     uid |-> EventUid(event_data.date),
     dtstamp |-> stamp]

\* variant: the blocks are added in reverse order
BuildCalendar_Reversed(events, calendar_name, stamp) ==
    [prodid |-> "-//School Lunch Menu//EN",
     version |-> "2.0",
     calname |-> calendar_name,
     caldesc |-> "Automated school lunch menu calendar",
     blocks |-> [k \in 1..Len(events) |-> EventBlock(events[Len(events) + 1 - k], stamp)]]

\* the Calendar object handed to cal.to_ical()
BuildCalendar(events, calendar_name, stamp) ==
    [prodid |-> "-//School Lunch Menu//EN",
     version |-> "2.0",
     calname |-> calendar_name,
     caldesc |-> "Automated school lunch menu calendar",
     blocks |-> [k \in 1..Len(events) |-> EventBlock(events[k], stamp)]]

\* what the output path holds
NoFile == [kind |-> "absent"]
OldFile == [kind |-> "old"]
Truncated == [kind |-> "truncated"]
Complete(cal) == [kind |-> "complete", cal |-> cal]

\* outcomes of mkdir / open(path, 'wb') / f.write: open truncates the file
\* before anything is written
FsOutcomes == {"ok", "mkdir_fails", "open_fails", "write_fails"}

WriteResult(before, cal, outcome) ==
    CASE outcome = "ok" -> Complete(cal)
      [] outcome = "write_fails" -> Truncated
      [] OTHER -> before

\* ------------------------------------------------------------------------
\* fetch_menu.py: MenuParser
\* ------------------------------------------------------------------------
\* a value that is not a dict where a dict is expected (a str, a list, ...)
NotADict == [nondict |-> TRUE]

\* isinstance(data, dict) on a payload, a day or an item record
IsDictValue(d) == "nondict" \notin DOMAIN d

\* a date value that is not a str (a JSON number)
NotAStr == "<int>"

\* the outcome of a call: a returned value, or an exception that leaves it
Returned(v) == [raised |-> FALSE, value |-> v]
Raised == [raised |-> TRUE]

\* dateutil.parser.parse on the date strings of the inputs; ParserError is a
\* ValueError
ParseDateStr(str) ==
    CASE str = "2025-01-15" -> Returned(MkDate(2025, 1, 15))
      [] str = "2025-01-16" -> Returned(MkDate(2025, 1, 16))
      [] str = "January 17, 2025" -> Returned(MkDate(2025, 1, 17))
      [] OTHER -> Raised

\* MenuParser._parse_date
_parse_date(date_input) ==
    IF date_input = NotAStr \/ date_input = None THEN Raised
    ELSE ParseDateStr(date_input)

\* bool(item) for an item of a list
ItemTruthy(item) == IF IsDict(item) THEN item.v # <<>> ELSE item.v # ""

\* '\n'.join(str(item) for item in items if item)
RECURSIVE TruthyStrs(_)
TruthyStrs(items) ==
    IF items = <<>> THEN <<>>
    ELSE (IF ItemTruthy(Head(items)) THEN <<StrOf(Head(items))>> ELSE <<>>)
         \o TruthyStrs(Tail(items))

\* runs the loop body on every entry; an exception raised by one entry
\* leaves the loop and the function
Extend(first, rest) ==
    IF first.raised \/ rest.raised THEN Raised
    ELSE Returned(first.value \o rest.value)

\* the body of "for day in days"
ParseDay(day) ==
    IF ~IsDictValue(day) THEN Returned(<<>>)
    ELSE LET date == Get(day, "date", None)
             items == IF Get(day, "items", <<>>) # <<>> THEN day["items"]
                      ELSE Get(day, "meals", <<>>)
         IN  IF Truthy(date) /\ items # <<>>
             THEN (IF _parse_date(date).raised THEN Raised
                   ELSE Returned(<< [date |-> _parse_date(date).value,
                                     title |-> DefaultTitle,
                                     description |-> Join("\n", TruthyStrs(items))] >>))
             ELSE Returned(<<>>)

RECURSIVE _parse_days_format(_)
_parse_days_format(days) ==
    IF days = <<>> THEN Returned(<<>>)
    ELSE Extend(ParseDay(Head(days)), _parse_days_format(Tail(days)))

\* a value of the dates mapping: a list of items or anything else (a str)
ListValue(items) == [t |-> "list", v |-> items]
StrValue(str) == [t |-> "str", v |-> str]

\* the body of "for date_str, items in dates.items()", with its
\* except (ValueError, TypeError): continue
ParseDateEntry(entry) ==
    LET date_str == entry[1]
        items == entry[2]
    IN  IF _parse_date(date_str).raised THEN <<>>
        ELSE << [date |-> _parse_date(date_str).value,
                 title |-> DefaultTitle,
                 description |-> IF items.t = "list"
                                 THEN Join("\n", TruthyStrs(items.v))
                                 ELSE items.v] >>

\* variant: a key that does not resolve ends the loop
RECURSIVE DateEntries_StopAtBadKey(_)
DateEntries_StopAtBadKey(dates) ==
    IF dates = <<>> THEN <<>>
    ELSE IF ParseDateEntry(Head(dates)) = <<>> THEN <<>>
    ELSE ParseDateEntry(Head(dates)) \o DateEntries_StopAtBadKey(Tail(dates))

RECURSIVE DateEntries(_)
DateEntries(dates) ==
    IF dates = <<>> THEN <<>>
    ELSE ParseDateEntry(Head(dates)) \o DateEntries(Tail(dates))

_parse_dates_format(dates) == Returned(DateEntries(dates))

\* a or b on str-or-None values
Or(a, b) == IF Truthy(a) THEN a ELSE b

\* the body of "for item in items"
ParseItem(item) ==
    IF ~IsDictValue(item) THEN Returned(<<>>)
    ELSE LET date == Or(Get(item, "date", None), Get(item, "day", None))
             menu == Or(Get(item, "menu", None),
                        Or(Get(item, "items", None), Get(item, "description", None)))
         IN  IF Truthy(date) /\ Truthy(menu)
             THEN (IF _parse_date(date).raised THEN Raised
                   ELSE Returned(<< [date |-> _parse_date(date).value,
                                     title |-> DefaultTitle,
                                     description |-> menu] >>))
             ELSE Returned(<<>>)

RECURSIVE _parse_items_format(_)
_parse_items_format(items) ==
    IF items = <<>> THEN Returned(<<>>)
    ELSE Extend(ParseItem(Head(items)), _parse_items_format(Tail(items)))

RECURSIVE parse_menu(_)

\* variant: every pattern whose key is present is applied (if ... if ...
\* in place of if ... elif ...)
parse_menu_EveryKey(data) ==
    IF ~IsDictValue(data) THEN Returned(<<>>)
    ELSE Extend(IF "days" \in DOMAIN data THEN _parse_days_format(data["days"])
                ELSE Returned(<<>>),
         Extend(IF "dates" \in DOMAIN data THEN _parse_dates_format(data["dates"])
                ELSE Returned(<<>>),
         Extend(IF "items" \in DOMAIN data THEN _parse_items_format(data["items"])
                ELSE Returned(<<>>),
                IF "menu" \in DOMAIN data THEN parse_menu(data["menu"])
                ELSE Returned(<<>>))))

\* MenuParser.parse_menu
parse_menu(data) ==
    IF ~IsDictValue(data) THEN Returned(<<>>)
    ELSE IF "days" \in DOMAIN data THEN _parse_days_format(data["days"])
    ELSE IF "dates" \in DOMAIN data THEN _parse_dates_format(data["dates"])
    ELSE IF "items" \in DOMAIN data THEN _parse_items_format(data["items"])
    ELSE IF "menu" \in DOMAIN data THEN parse_menu(data["menu"])
    ELSE Returned(<<>>)

\* ICSGenerator.generate_calendar builds the same blocks under a fixed
\* calendar name and adds a timezone hint
BuildMenuCalendar(events, stamp) ==
    [prodid |-> "-//School Lunch Menu//EN",
     version |-> "2.0",
     calname |-> "School Lunch Menu",
     timezone |-> "America/New_York",
     caldesc |-> "Automated school lunch menu calendar",
     blocks |-> [k \in 1..Len(events) |-> EventBlock(events[k], stamp)]]

\* ------------------------------------------------------------------------
\* fetch_menu_pdf.py: PDFMenuParser
\* ------------------------------------------------------------------------
\* str.strip() on the blanks of a line
RECURSIVE LStrip(_)
LStrip(str) ==
    IF str # "" /\ SubSeq(str, 1, 1) = " " THEN LStrip(SubSeq(str, 2, Len(str)))
    ELSE str

RECURSIVE RStrip(_)
RStrip(str) ==
    IF str # "" /\ SubSeq(str, Len(str), Len(str)) = " "
    THEN RStrip(SubSeq(str, 1, Len(str) - 1))
    ELSE str

Strip(str) == RStrip(LStrip(str))

\* sub in str
Contains(str, sub) ==
    \E i \in 1..(Len(str) - Len(sub) + 1) : SubSeq(str, i, i + Len(sub) - 1) = sub

\* the five expressions of date_patterns, in list order: weekday month day,
\* month day year, M/D/Y, M-D-Y, month day
NumPatterns == 5

\* re.search(date_patterns[k], line, re.IGNORECASE): group(0) of the match on
\* the lines of the inputs, None without a match
ReSearch(k, line) ==
    CASE k = 1 /\ line = "Monday, January 15" -> "Monday, January 15"
      [] k = 5 /\ line = "Monday, January 15" -> "January 15"
      [] k = 1 /\ line = "Tuesday, January 16 Tacos" -> "Tuesday, January 16"
      [] k = 5 /\ line = "Tuesday, January 16 Tacos" -> "January 16"
      [] k = 3 /\ line = "1/17/2025 Soup" -> "1/17/2025"
      [] k = 1 /\ line = "Monday, January 15, 2023 Pizza" -> "Monday, January 15"
      [] k = 2 /\ line = "Monday, January 15, 2023 Pizza" -> "January 15, 2023"
      [] k = 5 /\ line = "Monday, January 15, 2023 Pizza" -> "January 15"
      [] k = 3 /\ line = "13/45/2025 January 16 Tacos" -> "13/45/2025"
      [] k = 5 /\ line = "13/45/2025 January 16 Tacos" -> "January 16"
      [] k = 1 /\ line = "Lunch Monday, January 15 Pizza" -> "Monday, January 15"
      [] k = 5 /\ line = "Lunch Monday, January 15 Pizza" -> "January 15"
      [] OTHER -> None

\* dateutil.parser.parse(date_str, fuzzy=True) on the date texts of the inputs
FuzzyParse(date_str) ==
    CASE date_str = "Monday, January 15, 2025" -> Returned(MkDate(2025, 1, 15))
      [] date_str = "January 15, 2025" -> Returned(MkDate(2025, 1, 15))
      [] date_str = "Tuesday, January 16, 2025" -> Returned(MkDate(2025, 1, 16))
      [] date_str = "January 16, 2025" -> Returned(MkDate(2025, 1, 16))
      [] date_str = "1/17/2025" -> Returned(MkDate(2025, 1, 17))
      [] date_str = "Monday, January 15, 2023" -> Returned(MkDate(2023, 1, 15))
      [] date_str = "January 15, 2023" -> Returned(MkDate(2023, 1, 15))
      [] date_str = "Tuesday, January 16, 2023" -> Returned(MkDate(2023, 1, 16))
      [] date_str = "January 16, 2023" -> Returned(MkDate(2023, 1, 16))
      [] date_str = "13/45/2025" -> Raised
      [] date_str = "13/45/2025/2023" -> Raised
      [] OTHER -> Raised

\* "Add year if not present"
WithYear(date_str, year) ==
    IF ~Contains(date_str, ToString(year)) /\ Contains(date_str, "/")
    THEN date_str \o "/" \o ToString(year)
    ELSE IF ~Contains(date_str, ToString(year))
    THEN date_str \o ", " \o ToString(year)
    ELSE date_str

\* an Optional[datetime]
NoDate == [found |-> FALSE]
SomeDate(dt) == [found |-> TRUE, date |-> dt]

\* the loop "for pattern in date_patterns" from pattern k on: the first
\* pattern that matches and parses returns; a match that does not parse
\* continues with the next pattern
RECURSIVE ExtractFromPattern(_, _, _)
ExtractFromPattern(line, year, k) ==
    IF k > NumPatterns THEN NoDate
    ELSE IF ReSearch(k, line) = None THEN ExtractFromPattern(line, year, k + 1)
    ELSE LET parsed == FuzzyParse(WithYear(ReSearch(k, line), year))
         IN  IF parsed.raised THEN ExtractFromPattern(line, year, k + 1)
             ELSE SomeDate(parsed.value)

_extract_date_from_line(line, year) == ExtractFromPattern(line, year, 1)

\* the three re.sub calls of _remove_date_from_line and the final strip, on
\* the lines of the inputs
_remove_date_from_line(line) ==
    CASE line = "Monday, January 15" -> ""
      [] line = "Tuesday, January 16 Tacos" -> "Tacos"
      [] line = "1/17/2025 Soup" -> "Soup"
      [] line = "Monday, January 15, 2023 Pizza" -> "2023 Pizza"
      [] line = "13/45/2025 January 16 Tacos" -> "January 16 Tacos"
      [] OTHER -> Strip(line)

\* variant: the description keeps only the last accumulated line
Flush_LastLineOnly(current_date, current_menu) ==
    IF current_date.found /\ current_menu # <<>>
    THEN << [date |-> current_date.date, title |-> DefaultTitle,
             description |-> current_menu[Len(current_menu)]] >>
    ELSE <<>>

\* variant: a date is closed with an event even when nothing was accumulated
Flush_EmptyDay(current_date, current_menu) ==
    IF current_date.found
    THEN << [date |-> current_date.date, title |-> DefaultTitle,
             description |-> Join("\n", current_menu)] >>
    ELSE <<>>

\* the event appended when a date is closed: if current_date and current_menu
Flush(current_date, current_menu) ==
    IF current_date.found /\ current_menu # <<>>
    THEN << [date |-> current_date.date,
             title |-> DefaultTitle,
             description |-> Join("\n", current_menu)] >>
    ELSE <<>>

\* variant: the loop as it is, without the flush after it
RECURSIVE ScanLines_NoFinalFlush(_, _, _, _)
ScanLines_NoFinalFlush(lines, year, current_date, current_menu) ==
    IF lines = <<>> THEN <<>>
    ELSE LET line == Strip(Head(lines))
             date == _extract_date_from_line(line, year)
             remaining == _remove_date_from_line(line)
         IN  IF line = ""
             THEN ScanLines_NoFinalFlush(Tail(lines), year, current_date, current_menu)
             ELSE IF date.found
             THEN Flush(current_date, current_menu)
                  \o ScanLines_NoFinalFlush(Tail(lines), year, date,
                                            IF remaining # "" THEN <<remaining>> ELSE <<>>)
             ELSE IF current_date.found
             THEN ScanLines_NoFinalFlush(Tail(lines), year, current_date,
                                         Append(current_menu, line))
             ELSE ScanLines_NoFinalFlush(Tail(lines), year, current_date, current_menu)

\* variant: the lines before the first date line are kept for the first date
RECURSIVE ScanLines_KeepsLeading(_, _, _, _)
ScanLines_KeepsLeading(lines, year, current_date, current_menu) ==
    IF lines = <<>> THEN Flush(current_date, current_menu)
    ELSE LET line == Strip(Head(lines))
             date == _extract_date_from_line(line, year)
             remaining == _remove_date_from_line(line)
             leading == IF current_date.found THEN <<>> ELSE current_menu
         IN  IF line = ""
             THEN ScanLines_KeepsLeading(Tail(lines), year, current_date, current_menu)
             ELSE IF date.found
             THEN Flush(current_date, current_menu)
                  \o ScanLines_KeepsLeading(Tail(lines), year, date,
                         leading \o (IF remaining # "" THEN <<remaining>> ELSE <<>>))
             ELSE ScanLines_KeepsLeading(Tail(lines), year, current_date,
                                         Append(current_menu, line))

\* the loop "for line in lines" of parse_menu_text and the flush after it
RECURSIVE ScanLines(_, _, _, _)
ScanLines(lines, year, current_date, current_menu) ==
    IF lines = <<>> THEN Flush(current_date, current_menu)
    ELSE LET line == Strip(Head(lines))
             date == _extract_date_from_line(line, year)
             remaining == _remove_date_from_line(line)
         IN  IF line = "" THEN ScanLines(Tail(lines), year, current_date, current_menu)
             ELSE IF date.found
             THEN Flush(current_date, current_menu)
                  \o ScanLines(Tail(lines), year, date,
                               IF remaining # "" THEN <<remaining>> ELSE <<>>)
             ELSE IF current_date.found
             THEN ScanLines(Tail(lines), year, current_date, Append(current_menu, line))
             ELSE ScanLines(Tail(lines), year, current_date, current_menu)

\* PDFMenuParser.parse_menu_text(text, year); text is the sequence of the
\* lines of text.split('\n')
parse_menu_text(text, year) == ScanLines(text, year, NoDate, <<>>)

\* ------------------------------------------------------------------------
\* State
\* ------------------------------------------------------------------------
VARIABLES
    today,       \* datetime.now(): the run's current date
    clock,       \* datetime.now(): the time of day used for dtstamp
    payload,     \* the input of the run (the JSON file, the API payload, ...)
    pc,          \* position in main()
    months_ahead,\* the months_ahead argument of the window selection
    menus,       \* the menus selected by the month window
    all_events,  \* the event list built so far
    file,        \* what the output path holds
    exit_code,   \* exit status of the run, NoneInt while it runs
    run,         \* number of the current run
    first_file   \* what the output path held when the first run ended

vars == <<today, clock, payload, pc, months_ahead, menus, all_events, file, exit_code, run, first_file>>

\* the time of day moves on after it was read (up to MaxClock)
Tick(now) == IF now < MaxClock THEN now + 1 ELSE now

\* generate_ics(events, output_path, calendar_name): builds the calendar,
\* stamps the blocks with datetime.now(), writes the file; success is the
\* value it returns
generate_ics(events, calendar_name, success) ==
    \E outcome \in FsOutcomes :
        /\ clock' = Tick(clock)
        /\ file' = WriteResult(file, BuildCalendar(events, calendar_name, clock), outcome)
        /\ success = (outcome = "ok")

\* ICSGenerator.generate_calendar(events, output_path)
generate_calendar(events, success) ==
    \E outcome \in FsOutcomes :
        /\ clock' = Tick(clock)
        /\ file' = WriteResult(file, BuildMenuCalendar(events, clock), outcome)
        /\ success = (outcome = "ok")

\* ------------------------------------------------------------------------
\* Inputs of fetch_from_json.main
\* ------------------------------------------------------------------------
MonthsAheadDefault == 2

\* json.load failed: load_menu_json returns None
LoadFailed == [loaded |-> FALSE]
Loaded(data) == [loaded |-> TRUE, data |-> data]

Todays == { MkDate(2024, 12, 15), MkDate(2025, 1, 15) }

JsonDayEntries ==
    { [day |-> 5, items |-> <<StrItem("Pizza")>>],
      [day |-> 5, items |-> <<StrItem("Tacos")>>],
      [day |-> 20, items |-> <<StrItem("Pizza")>>] }

SeqsUpTo(S, n) == UNION { [1..k -> S] : k \in 0..n }

\* the sequences without a repeated element
DistinctSeqsUpTo(S, n) ==
    { q \in SeqsUpTo(S, n) : \A i, j \in DOMAIN q : q[i] = q[j] => i = j }

JsonMenus ==
    { [year |-> ym[1], month |-> ym[2], days |-> ds] :
        ym \in { <<2024, 11>>, <<2025, 0>> }, ds \in DistinctSeqsUpTo(JsonDayEntries, MaxDays) }

JsonPayloads ==
    { LoadFailed, Loaded([name |-> "Kramer Lunch"]) }
    \cup { Loaded([name |-> "Kramer Lunch", menus |-> ms]) : ms \in SeqsUpTo(JsonMenus, MaxMenus) }

\* ------------------------------------------------------------------------
\* fetch_from_json.main, one action per step
\* ------------------------------------------------------------------------
Init ==
    /\ today \in Todays
    /\ clock = 0
    /\ payload \in JsonPayloads
    /\ pc = "start"
    /\ months_ahead = MonthsAheadDefault
    /\ menus = <<>>
    /\ all_events = <<>>
    /\ file \in {NoFile, OldFile}
    /\ exit_code = NoneInt
    /\ run = 1
    /\ first_file = NoFile

\* menu_data = load_menu_json(JSON_PATH); if not menu_data: sys.exit(1)
LoadMenuJson ==
    /\ pc = "start"
    /\ IF payload.loaded
       THEN pc' = "loaded" /\ exit_code' = exit_code
       ELSE pc' = "exit" /\ exit_code' = 1
    /\ UNCHANGED <<today, clock, payload, months_ahead, menus, all_events, file, run, first_file>>

\* menus = get_current_and_upcoming_menus(menu_data, months_ahead=2)
\* if not menus: sys.exit(1)
FindMenus ==
    /\ pc = "loaded"
    /\ menus' = get_current_and_upcoming_menus(payload.data, today, months_ahead)
    /\ all_events' = <<>>
    /\ IF menus' = <<>>
       THEN pc' = "exit" /\ exit_code' = 1
       ELSE pc' = "parsing" /\ exit_code' = exit_code
    /\ UNCHANGED <<today, clock, payload, months_ahead, file, run, first_file>>

\* variant: the events of a menu are put in front of those collected so far
ParseMenu_Prepends ==
    /\ pc = "parsing"
    /\ menus # <<>>
    /\ all_events' = parse_menu_to_events(Head(menus)) \o all_events
    /\ menus' = Tail(menus)
    /\ UNCHANGED <<today, clock, payload, pc, months_ahead, file, exit_code, run, first_file>>

\* for menu in menus: all_events.extend(parse_menu_to_events(menu))
\* (menus holds the menus still to be processed)
ParseMenu ==
    /\ pc = "parsing"
    /\ menus # <<>>
    /\ all_events' = all_events \o parse_menu_to_events(Head(menus))
    /\ menus' = Tail(menus)
    /\ UNCHANGED <<today, clock, payload, pc, months_ahead, file, exit_code, run, first_file>>

\* variant: the run goes on to write the calendar when no event was parsed
CheckEvents_NoExit ==
    /\ pc = "parsing"
    /\ menus = <<>>
    /\ pc' = "emit"
    /\ UNCHANGED <<today, clock, payload, months_ahead, menus, all_events, file, exit_code, run, first_file>>

\* if not all_events: sys.exit(1)
CheckEvents ==
    /\ pc = "parsing"
    /\ menus = <<>>
    /\ IF all_events = <<>>
       THEN pc' = "exit" /\ exit_code' = 1
       ELSE pc' = "emit" /\ exit_code' = exit_code
    /\ UNCHANGED <<today, clock, payload, months_ahead, menus, all_events, file, run, first_file>>

\* success = generate_ics(all_events, OUTPUT_FILE, menu_name)
\* if not success: sys.exit(1)
GenerateIcs ==
    /\ pc = "emit"
    /\ \E success \in BOOLEAN :
          /\ generate_ics(all_events, Get(payload.data, "name", "School Lunch Menu"), success)
          /\ IF success
             THEN pc' = "done" /\ exit_code' = 0
             ELSE pc' = "exit" /\ exit_code' = 1
    /\ UNCHANGED <<today, payload, months_ahead, menus, all_events, run, first_file>>

\* after a successful run the script is run again on the same JSON file, on
\* the same day
RunAgain ==
    /\ pc = "done"
    /\ run < MaxRuns
    /\ run' = run + 1
    /\ first_file' = IF run = 1 THEN file ELSE first_file
    /\ pc' = "start"
    /\ menus' = <<>>
    /\ all_events' = <<>>
    /\ exit_code' = NoneInt
    /\ UNCHANGED <<today, clock, payload, months_ahead, file>>

Next ==
    \/ LoadMenuJson
    \/ FindMenus
    \/ ParseMenu
    \/ CheckEvents
    \/ GenerateIcs
    \/ RunAgain

Spec == Init /\ [][Next]_vars

\* ------------------------------------------------------------------------
\* Properties of fetch_from_json.main (Spec)
\* ------------------------------------------------------------------------
\* the event list is handed to generate_ics at "emit"; "done" is after a
\* successful write of the document built from it
Emitted == pc = "done" /\ file.kind = "complete"

\* C1: when several parsed entries resolve to the same date, the event list
\* handed to the emitter, and the emitted document, hold exactly one event
\* for that date (the one of the source processed later).
C1_OneEventPerDate ==
    /\ pc = "emit" =>
          \A i, j \in DOMAIN all_events :
              all_events[i].date = all_events[j].date => i = j
    /\ Emitted =>
          \A i, j \in DOMAIN file.cal.blocks :
              file.cal.blocks[i].dtstart = file.cal.blocks[j].dtstart => i = j

\* the fields of an event block other than the generation timestamp
StripStamp(block) ==
    [uid |-> block.uid, dtstart |-> block.dtstart, dtend |-> block.dtend,
     summary |-> block.summary, description |-> block.description]

StripStamps(cal) == [k \in DOMAIN cal.blocks |-> StripStamp(cal.blocks[k])]

\* C6: a second run on the same payload with the same current date writes
\* the same sequence of event blocks as the first, equal in uid, start, end,
\* summary and description; only dtstamp may differ.
C6_Deterministic ==
    (run = 2 /\ Emitted /\ first_file.kind = "complete") =>
        /\ StripStamps(file.cal) = StripStamps(first_file.cal)
        /\ file.cal.calname = first_file.cal.calname

C6_Witness ==
    /\ run = 2 /\ Emitted /\ first_file.kind = "complete"
    /\ Len(file.cal.blocks) >= 2
    /\ file.cal.blocks[1].dtstamp # first_file.cal.blocks[1].dtstamp

\* C8 as stated: no event handed to the emitter is dated before the run's
\* current date.
C8_NoPastDates ==
    pc = "emit" => \A k \in DOMAIN all_events : ~DateLess(all_events[k].date, today)

\* C8 amended: no event is dated before the first day of the run's current
\* month; the days of the current month that lie before today are kept.
C8_NoPastMonths ==
    \A k \in DOMAIN all_events :
        ~DateLess(all_events[k].date, MkDate(today.year, today.month, 1))

C8_Witness ==
    /\ Emitted
    /\ \E k \in DOMAIN file.cal.blocks :
          /\ DateLess(file.cal.blocks[k].dtstart, today)
          /\ file.cal.blocks[k].dtstart.month = today.month
    /\ \E k \in DOMAIN payload.data["menus"] :
          payload.data["menus"][k]["month"] + 1 # today.month

\* C9: the event list handed to the emitter, and the blocks of the emitted
\* document, are in ascending date order.
C9_SortedByDate ==
    /\ pc = "emit" =>
          \A i, j \in DOMAIN all_events :
              i < j => ~DateLess(all_events[j].date, all_events[i].date)
    /\ Emitted =>
          \A i, j \in DOMAIN file.cal.blocks :
              i < j => ~DateLess(file.cal.blocks[j].dtstart, file.cal.blocks[i].dtstart)

\* fetch_from_json.main on payloads that list several menus (SpecOrder):
\* menus of the window with different events, days out of date order, a
\* menu of a past month and a menu without days
OrderMenus ==
    { [year |-> 2025, month |-> 0,
       days |-> << [day |-> 20, items |-> <<StrItem("Tacos")>>],
                   [day |-> 5, items |-> <<StrItem("Pizza")>>] >>],
      [year |-> 2025, month |-> 1, days |-> << [day |-> 3, items |-> <<StrItem("Soup")>>] >>],
      [year |-> 2025, month |-> 2, days |-> << [day |-> 5, items |-> <<StrItem("Pizza")>>] >>],
      [year |-> 2024, month |-> 11, days |-> << [day |-> 9, items |-> <<StrItem("Chili")>>] >>],
      [year |-> 2025, month |-> 1, days |-> <<>>] }

OrderPayloads ==
    { Loaded([name |-> "Kramer Lunch", menus |-> ms]) : ms \in SeqsUpTo(OrderMenus, MaxMenus) }

InitOrder ==
    /\ today = MkDate(2025, 1, 15)
    /\ clock = 0
    /\ payload \in OrderPayloads
    /\ pc = "start"
    /\ months_ahead = MonthsAheadDefault
    /\ menus = <<>>
    /\ all_events = <<>>
    /\ file \in {NoFile, OldFile}
    /\ exit_code = NoneInt
    /\ run = 1
    /\ first_file = NoFile

SpecOrder == InitOrder /\ [][Next]_vars

\* the events of a list of menus, menu after menu
RECURSIVE EventsOfMenus(_)
EventsOfMenus(list) ==
    IF list = <<>> THEN <<>>
    ELSE parse_menu_to_events(Head(list)) \o EventsOfMenus(Tail(list))

\* the menus of the payload that this run processes
ChosenMenus == get_current_and_upcoming_menus(payload.data, today, months_ahead)

\* C27: the menus are processed one after another in the order of the
\* payload's menus list: the chosen menus are the listed ones in their listed
\* order, the menus still to do are a tail of them, and the combined list is
\* the events of the menus done so far, menu after menu; this holds on every
\* run over the payload.
C27_MenusInListedOrder ==
    pc \in {"parsing", "emit", "done"} =>
        LET listed == payload.data["menus"]
            done == Len(ChosenMenus) - Len(menus)
        IN  /\ ChosenMenus =
                   SelectSeq(listed, LAMBDA m : \E i \in 1..Len(ChosenMenus) : ChosenMenus[i] = m)
            /\ done >= 0
            /\ menus = SubSeq(ChosenMenus, done + 1, Len(ChosenMenus))
            /\ all_events = EventsOfMenus(SubSeq(ChosenMenus, 1, done))

\* a second run in which two menus with different events were combined
C27_Witness ==
    /\ pc = "emit"
    /\ run = 2
    /\ Len(ChosenMenus) = 2
    /\ parse_menu_to_events(ChosenMenus[1]) # <<>>
    /\ parse_menu_to_events(ChosenMenus[2]) # <<>>
    /\ parse_menu_to_events(ChosenMenus[1]) # parse_menu_to_events(ChosenMenus[2])

\* C30: the file at the output path changes only in the step that writes
\* the calendar, taken with at least one parsed event; a run that stops with
\* no event (the JSON was not loaded, no menu matched, or the matched menus
\* gave no event) ends with status 1 and with the file as it was.
C30_WrittenOnlyWithEvents ==
    [][ /\ file' # file => (pc = "emit" /\ all_events # <<>>)
        /\ (pc' = "exit" /\ all_events' = <<>>) =>
               /\ exit_code' = 1
               /\ file' = file
               /\ run' = 1 => file' \in {NoFile, OldFile} ]_vars

\* a run over matched menus without events has stopped; the old file is there
C30_Witness ==
    /\ pc = "exit"
    /\ payload.loaded
    /\ ChosenMenus # <<>>
    /\ all_events = <<>>
    /\ exit_code = 1
    /\ file = OldFile

\* a run has stopped because the JSON could not be loaded
C30_WitnessNotLoaded ==
    /\ pc = "exit"
    /\ ~payload.loaded
    /\ exit_code = 1
    /\ file = OldFile

\* ------------------------------------------------------------------------
\* generate_ics called on an arbitrary event list (SpecIcs)
\* ------------------------------------------------------------------------
EdgeDates == { MkDate(2024, 2, 28), MkDate(2024, 12, 31), MkDate(2025, 1, 5) }

IcsEvents(dates, titles, descriptions) ==
    [date : dates, title : titles, description : descriptions]

IcsEventLists ==
    { <<>> }
    \cup { <<e>> : e \in IcsEvents(AllDates, {DefaultTitle}, {"Pizza"}) }
    \cup { <<e1, e2>> : e1 \in IcsEvents(EdgeDates, {DefaultTitle, "Lunch: Pizza"}, {"Pizza"}),
                        e2 \in IcsEvents(EdgeDates, {DefaultTitle}, {"Pizza", "Tacos\nRice"}) }

InitIcs ==
    /\ today = MkDate(2025, 1, 15)
    /\ clock \in 0..MaxClock
    /\ payload = [name |-> "School Lunch Menu"]
    /\ pc = "call"
    /\ months_ahead = MonthsAheadDefault
    /\ menus = <<>>
    /\ all_events \in IcsEventLists
    /\ file \in {NoFile, OldFile}
    /\ exit_code = NoneInt
    /\ run = 1
    /\ first_file = NoFile

\* generate_ics(events, output_path, calendar_name) returning True or False
CallGenerateIcs ==
    /\ pc = "call"
    /\ \E success \in BOOLEAN :
          /\ generate_ics(all_events, payload["name"], success)
          /\ pc' = IF success THEN "returned_true" ELSE "returned_false"
    /\ UNCHANGED <<today, payload, months_ahead, menus, all_events, exit_code, run, first_file>>

NextIcs == CallGenerateIcs

SpecIcs == InitIcs /\ [][NextIcs]_vars

TwoDigits ==
    <<"01", "02", "03", "04", "05", "06", "07", "08", "09", "10",
      "11", "12", "13", "14", "15", "16", "17", "18", "19", "20",
      "21", "22", "23", "24", "25", "26", "27", "28", "29", "30", "31">>

\* C2: the uid of every written event block is the event's date as YYYYMMDD
\* followed by "-lunch@automated-tasks"; it depends on the date alone, so
\* blocks of the same date carry the same uid whatever their title,
\* description, position or stamp.
C2_UidFromDate ==
    file.kind = "complete" =>
        /\ Len(file.cal.blocks) = Len(all_events)
        /\ \A k \in DOMAIN file.cal.blocks :
              LET dt == all_events[k].date
              IN  file.cal.blocks[k].uid =
                      ToString(dt.year) \o TwoDigits[dt.month] \o TwoDigits[dt.day]
                      \o "-lunch@automated-tasks"
        /\ \A i, j \in DOMAIN file.cal.blocks :
              all_events[i].date = all_events[j].date
                  => file.cal.blocks[i].uid = file.cal.blocks[j].uid

C2_Witness ==
    /\ file.kind = "complete"
    /\ Len(file.cal.blocks) = 2
    /\ all_events[1].date = all_events[2].date
    /\ all_events[1].title # all_events[2].title
    /\ all_events[1].description # all_events[2].description
    /\ file.cal.blocks[1].uid = "20241231-lunch@automated-tasks"
    /\ file.cal.blocks[2].uid = "20241231-lunch@automated-tasks"

\* b is the calendar day after a
IsNextDay(a, b) ==
    LET last == IF a.month = 2
                THEN (IF a.year % 4 = 0 /\ (a.year % 100 # 0 \/ a.year % 400 = 0)
                      THEN 29 ELSE 28)
                ELSE <<31, 0, 31, 30, 31, 30, 31, 31, 30, 31, 30, 31>>[a.month]
    IN  IF a.day < last THEN b = MkDate(a.year, a.month, a.day + 1)
        ELSE IF a.month < 12 THEN b = MkDate(a.year, a.month + 1, 1)
        ELSE b = MkDate(a.year + 1, 1, 1)

\* C3: every written event block is an all-day entry that starts on the
\* event's date and ends on the next calendar day, also across the end of a
\* month and of a year.
C3_EndIsNextDay ==
    file.kind = "complete" =>
        \A k \in DOMAIN file.cal.blocks :
            /\ file.cal.blocks[k].dtstart = all_events[k].date
            /\ IsNextDay(all_events[k].date, file.cal.blocks[k].dtend)

C3_Witness ==
    /\ file.kind = "complete"
    /\ \E k \in DOMAIN file.cal.blocks :
          /\ file.cal.blocks[k].dtstart = MkDate(2024, 12, 31)
          /\ file.cal.blocks[k].dtend = MkDate(2025, 1, 1)
    /\ \E k \in DOMAIN file.cal.blocks :
          /\ file.cal.blocks[k].dtstart = MkDate(2024, 2, 28)
          /\ file.cal.blocks[k].dtend = MkDate(2024, 2, 29)

\* C18: the written document holds exactly one event block per event of the
\* input list, in input order, each with the event's title as summary and
\* its description unchanged; for an empty list it holds the calendar
\* metadata and no block.
C18_OneBlockPerEvent ==
    file.kind = "complete" =>
        /\ DOMAIN file.cal.blocks = DOMAIN all_events
        /\ \A k \in DOMAIN all_events :
              /\ file.cal.blocks[k].summary = all_events[k].title
              /\ file.cal.blocks[k].description = all_events[k].description
              /\ file.cal.blocks[k].dtstart = all_events[k].date
        /\ file.cal.prodid = "-//School Lunch Menu//EN"
        /\ file.cal.version = "2.0"
        /\ file.cal.calname = payload["name"]
        /\ all_events = <<>> => file.cal.blocks = <<>>

C18_Witness ==
    /\ file.kind = "complete"
    /\ Len(all_events) = 2
    /\ DateLess(all_events[2].date, all_events[1].date)
    /\ file.cal.blocks[1].summary = "Lunch: Pizza"
    /\ file.cal.blocks[1].dtstart = all_events[1].date
    /\ file.cal.blocks[2].summary = "School Lunch"
    /\ file.cal.blocks[2].description = "Tacos\nRice"

\* C11: a call of generate_ics leaves the output path with the complete new
\* document or with exactly what it held before the call, whether the write
\* succeeds or fails; the path never holds an empty or truncated file.
C11_AtomicWrite ==
    [][file'.kind = "complete" \/ file' = file]_vars

\* ------------------------------------------------------------------------
\* The month windows on every run date (SpecWindow)
\* ------------------------------------------------------------------------
\* a menus list with one menu for every month the window can reach
MonthlyMenus ==
    [k \in 1..(12 * (NumYears + 1)) |->
        [year |-> 2024 + ((k - 1) \div 12), month |-> (k - 1) % 12, id |-> k]]

InitWindow ==
    /\ today \in AllDates
    /\ clock = 0
    /\ payload = [name |-> "Kramer Lunch", menus |-> MonthlyMenus]
    /\ pc = "window"
    /\ months_ahead \in 0..MaxAhead
    /\ menus = <<>>
    /\ all_events = <<>>
    /\ file = NoFile
    /\ exit_code = NoneInt
    /\ run = 1
    /\ first_file = NoFile

\* get_current_and_upcoming_menus(menu_data, months_ahead)
SelectUpcoming ==
    /\ pc = "window"
    /\ menus' = get_current_and_upcoming_menus(payload, today, months_ahead)
    /\ pc' = "upcoming"
    /\ UNCHANGED <<today, clock, payload, months_ahead, all_events, file, exit_code, run, first_file>>

\* fetcher.get_current_and_next_month_menus(menu_type_data)
SelectCurrentAndNext ==
    /\ pc = "window"
    /\ menus' = get_current_and_next_month_menus(payload, today)
    /\ pc' = "current_and_next"
    /\ UNCHANGED <<today, clock, payload, months_ahead, all_events, file, exit_code, run, first_file>>

NextWindow == SelectUpcoming \/ SelectCurrentAndNext

SpecWindow == InitWindow /\ [][NextWindow]_vars

\* the (year, zero-indexed month) that lies k calendar months after now's
MonthPlus(now, k) ==
    LET t == now.year * 12 + (now.month - 1) + k
    IN  <<t \div 12, t % 12>>

SelectedExactly(n) ==
    /\ \A k \in DOMAIN payload["menus"] :
          (\E j \in DOMAIN menus : menus[j] = payload["menus"][k])
          <=> (\E i \in 0..n :
                  <<payload["menus"][k]["year"], payload["menus"][k]["month"]>>
                      = MonthPlus(today, i))
    /\ Len(menus) = n + 1

\* C7: the window of get_current_and_upcoming_menus is the current month and
\* the months_ahead months after it, consecutively, and a menu is selected
\* exactly when its (year, month) lies in it; get_current_and_next_month_menus
\* selects exactly the current month and the one after it.
C7_ConsecutiveMonths ==
    /\ pc = "upcoming" => SelectedExactly(months_ahead)
    /\ pc = "current_and_next" => SelectedExactly(1)

\* ------------------------------------------------------------------------
\* fetch_menu.main (SpecMenu)
\* ------------------------------------------------------------------------
\* the texts under each key are distinct, so an event shows its origin
DaysTexts == {"Days Pizza", "Days Soup", "Days Pizza\nDays Soup"}
DatesTexts == {"Dates Tacos\nDates Rice", "Dates Soup", ""}
ItemsTexts == {"Items Pizza", "Items Soup"}

DayRecords ==
    { [date |-> "2025-01-15", items |-> <<StrItem("Days Pizza")>>],
      [date |-> "2025-01-16", meals |-> <<StrItem("Days Soup")>>],
      [date |-> "January 17, 2025", items |-> <<StrItem("Days Pizza"), StrItem("Days Soup")>>],
      [date |-> "2025-01-15", items |-> <<>>],
      [items |-> <<StrItem("Days Pizza")>>],
      [date |-> "lunch", items |-> <<StrItem("Days Pizza")>>],
      NotADict }

DateEntryPairs ==
    { <<"2025-01-15", ListValue(<<StrItem("Dates Tacos"), StrItem("Dates Rice")>>)>>,
      <<"2025-01-16", StrValue("Dates Soup")>>,
      <<"January 17, 2025", ListValue(<<>>)>>,
      <<"lunch", StrValue("Dates Soup")>> }

ItemRecords ==
    { [date |-> "2025-01-15", menu |-> "Items Pizza"],
      [day |-> "2025-01-16", description |-> "Items Soup"],
      [date |-> "January 17, 2025"],
      [menu |-> "Items Pizza"],
      [date |-> "lunch", menu |-> "Items Soup"],
      [day |-> NotAStr, items |-> "Items Pizza"],
      NotADict }

\* the keys of a dict are distinct
DistinctKeys(pairs) == \A i, j \in DOMAIN pairs : pairs[i][1] = pairs[j][1] => i = j

DaysValues == SeqsUpTo(DayRecords, MaxEntries)
DatesValues == { ps \in SeqsUpTo(DateEntryPairs, MaxEntries) : DistinctKeys(ps) }
ItemsValues == SeqsUpTo(ItemRecords, MaxEntries)

\* payloads with one of the keys days / dates / items
OneKeyPayloads ==
    { [id |-> "m1", days |-> v] : v \in DaysValues }
    \cup { [id |-> "m1", dates |-> v] : v \in DatesValues }
    \cup { [id |-> "m1", items |-> v] : v \in ItemsValues }

\* payloads with any subset of the keys, each with an empty or a one-entry
\* value
Optional(key, values) == { <<>> } \cup { key :> v : v \in values }

FewKeysPayloads ==
    { [id |-> "m1"] @@ a @@ b @@ c :
        a \in Optional("days", { <<>>, << [date |-> "2025-01-15",
                                             items |-> <<StrItem("Days Pizza")>>] >> }),
        b \in Optional("dates", { <<>>, << <<"2025-01-16", StrValue("Dates Soup")>> >> }),
        c \in Optional("items", { <<>>, << [date |-> "2025-01-15", menu |-> "Items Pizza"] >> }) }

\* payloads that wrap another payload, or something else, under 'menu'
NestedPayloads ==
    { p @@ [menu |-> q] :
        p \in FewKeysPayloads,
        q \in { NotADict,
                [id |-> "m2"],
                [id |-> "m2", days |-> <<>>],
                [items |-> << [date |-> "2025-01-16", menu |-> "Items Soup"] >>],
                [menu |-> [dates |-> << <<"2025-01-15", StrValue("Dates Soup")>> >>]] } }

MenuPayloads ==
    { LoadFailed } \cup { Loaded(d) : d \in OneKeyPayloads \cup FewKeysPayloads \cup NestedPayloads }

InitMenu ==
    /\ today = MkDate(2025, 1, 15)
    /\ clock = 0
    /\ payload \in MenuPayloads
    /\ pc = "start"
    /\ months_ahead = MonthsAheadDefault
    /\ menus = <<>>
    /\ all_events = <<>>
    /\ file \in {NoFile, OldFile}
    /\ exit_code = NoneInt
    /\ run = 1
    /\ first_file = NoFile

\* menu_data = fetcher.fetch_menu_data(); if not menu_data: sys.exit(1)
FetchMenuData ==
    /\ pc = "start"
    /\ IF payload.loaded
       THEN pc' = "fetched" /\ exit_code' = exit_code
       ELSE pc' = "exit" /\ exit_code' = 1
    /\ UNCHANGED <<today, clock, payload, months_ahead, menus, all_events, file, run, first_file>>

\* events = parser.parse_menu(menu_data); an exception that leaves
\* parse_menu is caught nowhere and ends the process with status 1
ParseMenuData ==
    /\ pc = "fetched"
    /\ LET result == parse_menu(payload.data)
       IN  IF result.raised
           THEN pc' = "crashed" /\ exit_code' = 1 /\ all_events' = all_events
           ELSE pc' = "parsed" /\ exit_code' = exit_code /\ all_events' = result.value
    /\ UNCHANGED <<today, clock, payload, months_ahead, menus, file, run, first_file>>

\* if not events: print the payload; sys.exit(1)
CheckMenuEvents ==
    /\ pc = "parsed"
    /\ IF all_events = <<>>
       THEN pc' = "exit" /\ exit_code' = 1
       ELSE pc' = "emit" /\ exit_code' = exit_code
    /\ UNCHANGED <<today, clock, payload, months_ahead, menus, all_events, file, run, first_file>>

\* success = generator.generate_calendar(events, OUTPUT_FILE)
\* if not success: sys.exit(1)
GenerateCalendar ==
    /\ pc = "emit"
    /\ \E success \in BOOLEAN :
          /\ generate_calendar(all_events, success)
          /\ IF success
             THEN pc' = "done" /\ exit_code' = 0
             ELSE pc' = "exit" /\ exit_code' = 1
    /\ UNCHANGED <<today, payload, months_ahead, menus, all_events, run, first_file>>

NextMenu ==
    \/ FetchMenuData
    \/ ParseMenuData
    \/ CheckMenuEvents
    \/ GenerateCalendar

SpecMenu == InitMenu /\ [][NextMenu]_vars

\* the key that decides a payload by the precedence days, dates, items,
\* menu, and its value; a 'menu' key hands the decision to the nested payload
RECURSIVE Deciding(_)
Deciding(data) ==
    IF ~IsDictValue(data) THEN [key |-> "none"]
    ELSE IF "days" \in DOMAIN data THEN [key |-> "days", value |-> data["days"]]
    ELSE IF "dates" \in DOMAIN data THEN [key |-> "dates", value |-> data["dates"]]
    ELSE IF "items" \in DOMAIN data THEN [key |-> "items", value |-> data["items"]]
    ELSE IF "menu" \in DOMAIN data THEN Deciding(data["menu"])
    ELSE [key |-> "none"]

Descriptions(events) == { events[k].description : k \in DOMAIN events }

\* C4: parse_menu applies exactly one extractor to a dict payload, that of
\* the first present key among days, dates, items, menu (into which it
\* recurses), even when that key's value is empty; no event of a key of lower
\* precedence is in the result.
C4_FirstKeyDecides ==
    pc = "parsed" =>
        LET d == Deciding(payload.data)
        IN  /\ d.key = "days" =>
                  /\ all_events = _parse_days_format(d.value).value
                  /\ Descriptions(all_events) \subseteq DaysTexts
            /\ d.key = "dates" =>
                  /\ all_events = _parse_dates_format(d.value).value
                  /\ Descriptions(all_events) \subseteq DatesTexts
            /\ d.key = "items" =>
                  /\ all_events = _parse_items_format(d.value).value
                  /\ Descriptions(all_events) \subseteq ItemsTexts
            /\ d.key = "none" => all_events = <<>>

C4_Witness ==
    /\ pc = "parsed"
    /\ "days" \in DOMAIN payload.data /\ payload.data["days"] = <<>>
    /\ "dates" \in DOMAIN payload.data
    /\ _parse_dates_format(payload.data["dates"]).value # <<>>
    /\ "items" \in DOMAIN payload.data
    /\ _parse_items_format(payload.data["items"]).value # <<>>
    /\ "menu" \in DOMAIN payload.data
    /\ all_events = <<>>

\* a dict payload with none of the keys days, dates, items, menu
Unrecognized(data) ==
    IsDictValue(data) /\ DOMAIN data \cap {"days", "dates", "items", "menu"} = {}

\* C5: for a payload with none of the recognized keys the caller gets zero
\* events and an outcome that differs from the one of a recognized payload
\* without entries.
C5_UnrecognizedReported ==
    (pc = "parsed" /\ Unrecognized(payload.data)) =>
        /\ all_events = <<>>
        /\ \A empty \in { [days |-> <<>>], [dates |-> <<>>], [items |-> <<>>] } :
              parse_menu(payload.data) # parse_menu(empty)

\* the events an extractor yields for each entry taken alone, an entry that
\* makes it raise counting for none, concatenated in entry order
RECURSIVE EachAlone(_, _)
EachAlone(key, entries) ==
    IF entries = <<>> THEN <<>>
    ELSE LET alone == parse_menu(key :> <<Head(entries)>>)
         IN  (IF alone.raised THEN <<>> ELSE alone.value)
             \o EachAlone(key, Tail(entries))

\* C13: an entry whose date value cannot be resolved is dropped and the
\* extraction goes on: no exception leaves the extractor, and the result is
\* made of the events of all other entries, before and after the bad one.
C13_BadDateDropped ==
    /\ pc # "crashed"
    /\ pc = "parsed" =>
          LET d == Deciding(payload.data)
          IN  d.key # "none" => all_events = EachAlone(d.key, d.value)

\* C14: no extractor produces an event with an empty item bag: every event
\* of the result has a non-empty description; a date-map value that is an
\* empty list or an empty string yields no event.
C14_NoEmptyDescription ==
    pc = "parsed" => \A k \in DOMAIN all_events : all_events[k].description # ""

\* the date each resolvable date text of the inputs stands for
ResolvedDate ==
    "2025-01-15" :> MkDate(2025, 1, 15)
    @@ "2025-01-16" :> MkDate(2025, 1, 16)
    @@ "January 17, 2025" :> MkDate(2025, 1, 17)

Resolves(date_text) == date_text \in DOMAIN ResolvedDate

\* the text of a date-map value: its items joined by newlines, or the string
ValueText(value) ==
    IF value.t = "list" THEN Join("\n", [k \in DOMAIN value.v |-> value.v[k].v])
    ELSE value.v

RECURSIVE Carried(_, _)
Carried(rec, keys) ==
    IF keys = <<>> THEN None
    ELSE IF Head(keys) \in DOMAIN rec /\ rec[Head(keys)] \notin {None, ""}
         THEN rec[Head(keys)]
         ELSE Carried(rec, Tail(keys))

CarriesBoth(rec) ==
    /\ "nondict" \notin DOMAIN rec
    /\ Carried(rec, <<"date", "day">>) # None
    /\ Carried(rec, <<"menu", "items", "description">>) # None

\* C16: for an item-list payload the extractor returns, in input order, the
\* events of exactly the records that carry both a date (under 'date', else
\* 'day') and a menu text (under 'menu', else 'items', else 'description');
\* a record without one of them, or that is not a dict, is skipped and the
\* other records are not affected.
C16_RecordsWithDateAndMenu ==
    (pc \in {"parsed", "crashed"} /\ Deciding(payload.data).key = "items") =>
        LET kept == SelectSeq(Deciding(payload.data).value, CarriesBoth)
        IN  /\ pc = "parsed"
            /\ Len(all_events) = Len(kept)
            /\ \A k \in DOMAIN kept :
                  /\ Resolves(Carried(kept[k], <<"date", "day">>)) =>
                         all_events[k].date =
                             ResolvedDate[Carried(kept[k], <<"date", "day">>)]
                  /\ all_events[k].description =
                         Carried(kept[k], <<"menu", "items", "description">>)

\* ------------------------------------------------------------------------
\* parse_menu_to_events on one menu (SpecDays)
\* ------------------------------------------------------------------------
RichDayEntries ==
    { [day |-> 5, items |-> << DictItem(<< <<"name", "Pizza">>, <<"category", "Entrees">> >>),
                                DictItem(<< <<"name", "Corn">>, <<"category", "Sides">> >>) >>],
      [day |-> 6, items |-> << DictItem(<< <<"name", "Corn">>, <<"category", "Sides">> >>),
                                DictItem(<< <<"name", "Pizza">>, <<"category", "Entrees">> >>) >>],
      [day |-> 7, items |-> << StrItem("Tacos") >>],
      [day |-> 8, menu_items |-> <<>>, recipes |-> << DictItem(<< <<"recipeName", "Chili">> >>) >>],
      [dayNum |-> 9, items |-> << DictItem(<< <<"id", "7">> >>) >>],
      [day |-> 30, items |-> << StrItem("Soup") >>],
      [day |-> 0, items |-> << StrItem("Soup") >>],
      [day |-> 10, items |-> <<>>, html |-> "<p>Soup</p>"],
      [day |-> 11],
      [day |-> 12, items |-> << StrItem("") >>],
      [day |-> 13, items |-> << DictItem(<< <<"name", None>>, <<"text", "Soup">> >>) >>],
      [items |-> << StrItem("Tacos") >>],
      [day |-> 14, items |-> << StrItem("Tacos") >>, recipes |-> << StrItem("Soup") >>],
      [day |-> 15, menu_items |-> <<>>, menuItems |-> << StrItem("Pizza") >>],
      [day |-> 16, items |-> << DictItem(<< <<"label", "Fruit">> >>),
                                 DictItem(<< <<"recipeName", "Chili">> >>) >>] }

DaysMenus ==
    { [id |-> "m1"] @@ y @@ m @@ ds :
        y \in Optional("year", {2025}),
        m \in Optional("month", {0, 1}),
        ds \in Optional("days", SeqsUpTo(RichDayEntries, MaxEntries)) }

InitDays ==
    /\ today = MkDate(2025, 1, 15)
    /\ clock = 0
    /\ payload \in DaysMenus
    /\ pc = "menu"
    /\ months_ahead = MonthsAheadDefault
    /\ menus = <<>>
    /\ all_events = <<>>
    /\ file = NoFile
    /\ exit_code = NoneInt
    /\ run = 1
    /\ first_file = NoFile

\* events = parse_menu_to_events(menu)
ParseMenuToEvents ==
    /\ pc = "menu"
    /\ all_events' = parse_menu_to_events(payload)
    /\ pc' = "days_parsed"
    /\ UNCHANGED <<today, clock, payload, months_ahead, menus, file, exit_code, run, first_file>>

\* events = fetcher.parse_menu_days(detailed_menu)
ParseMenuDays ==
    /\ pc = "menu"
    /\ all_events' = parse_menu_days(payload, today)
    /\ pc' = "days_parsed_simple"
    /\ UNCHANGED <<today, clock, payload, months_ahead, menus, file, exit_code, run, first_file>>

NextDays == ParseMenuToEvents \/ ParseMenuDays

SpecDays == InitDays /\ [][NextDays]_vars

StartsWith(str, prefix) ==
    Len(str) >= Len(prefix) /\ SubSeq(str, 1, Len(prefix)) = prefix

\* the names of the items of category cat, in list order
RECURSIVE NamesIn(_, _)
NamesIn(items, cat) ==
    IF items = <<>> THEN <<>>
    ELSE (IF IsDict(Head(items)) /\ ItemGet(Head(items), "category") = cat
          THEN <<ItemGet(Head(items), "name")>> ELSE <<>>)
         \o NamesIn(Tail(items), cat)

\* C10: the event of a day entry whose items include the category "Entrees"
\* is titled "Lunch: <first Entrees item>" and its description starts with
\* the "Entrees" header; only entries without that category are titled
\* "School Lunch".
C10_EntreesLead ==
    (pc = "days_parsed" /\ "days" \in DOMAIN payload) =>
        \A k \in DOMAIN payload["days"] :
            LET entry == payload["days"][k]
                entrees == NamesIn(Get(entry, "items", <<>>), "Entrees")
                events == DayEvents(Get(payload, "year", NoneInt),
                                    Get(payload, "month", 0) + 1, entry)
            IN  \A j \in DOMAIN events :
                    /\ \E i \in DOMAIN all_events : all_events[i] = events[j]
                    /\ IF entrees # <<>>
                       THEN /\ events[j].title = "Lunch: " \o entrees[1]
                            /\ StartsWith(events[j].description, "Entrees\n")
                       ELSE events[j].title = DefaultTitle

\* the number of days of a calendar month
LastDayOfMonth(y, m) ==
    IF m = 2 THEN (IF y % 4 = 0 /\ (y % 100 # 0 \/ y % 400 = 0) THEN 29 ELSE 28)
    ELSE <<31, 0, 31, 30, 31, 30, 31, 31, 30, 31, 30, 31>>[m]

\* the day number an entry states, 0 when it states none
DayNumberOf(entry) ==
    IF "day" \in DOMAIN entry /\ entry["day"] # 0 THEN entry["day"]
    ELSE IF "dayNum" \in DOMAIN entry THEN entry["dayNum"]
    ELSE 0

\* the result of the extractor that ran on the menu made of one entry
EntryAlone(entry) ==
    LET menu == [year |-> payload["year"], month |-> payload["month"], days |-> <<entry>>]
    IN  IF pc = "days_parsed" THEN parse_menu_to_events(menu)
        ELSE parse_menu_days(menu, today)

RECURSIVE RealDaysAlone(_)
RealDaysAlone(days) ==
    IF days = <<>> THEN <<>>
    ELSE (IF DayNumberOf(Head(days)) \in
                1..LastDayOfMonth(payload["year"], payload["month"] + 1)
          THEN EntryAlone(Head(days)) ELSE <<>>)
         \o RealDaysAlone(Tail(days))

\* C17: every event of a day-array menu with year Y and zero-indexed month M
\* is dated in year Y, month M + 1, on the day number of its entry; an entry
\* whose day number is missing, zero or not a day of that month gives no
\* event, and the other entries are processed as if it were not there.
C17_DatedInDeclaredMonth ==
    (pc \in {"days_parsed", "days_parsed_simple"}
        /\ {"year", "month", "days"} \subseteq DOMAIN payload) =>
        /\ \A k \in DOMAIN all_events :
              /\ all_events[k].date.year = payload["year"]
              /\ all_events[k].date.month = payload["month"] + 1
              /\ all_events[k].date.day \in
                    1..LastDayOfMonth(payload["year"], payload["month"] + 1)
              /\ \E i \in DOMAIN payload["days"] :
                    DayNumberOf(payload["days"][i]) = all_events[k].date.day
        /\ all_events = RealDaysAlone(payload["days"])

C17_Witness ==
    /\ pc = "days_parsed"
    /\ {"year", "month", "days"} \subseteq DOMAIN payload
    /\ payload["month"] = 1
    /\ Len(payload["days"]) = 2
    /\ DayNumberOf(payload["days"][1]) = 30
    /\ all_events = << [date |-> MkDate(2025, 2, 7), title |-> "School Lunch",
                        description |-> "Tacos"] >>

\* the keys under which a day record may list its items, in preference order
ItemKeys == <<"menu_items", "items", "recipes", "menuItems", "recipeItems">>

\* the list under the first of the keys from position k on whose value is
\* not empty, the empty list when there is none
RECURSIVE ChosenList(_, _)
ChosenList(entry, k) ==
    IF k > Len(ItemKeys) THEN <<>>
    ELSE IF ItemKeys[k] \in DOMAIN entry /\ entry[ItemKeys[k]] # <<>>
         THEN entry[ItemKeys[k]]
         ELSE ChosenList(entry, k + 1)

\* the value of the first of the fields from position k on that a record
\* holds with a non-empty value, None when there is none
NameFields == <<"name", "recipeName", "text", "label">>

RECURSIVE FirstNameField(_, _)
FirstNameField(item, k) ==
    IF k > Len(NameFields) THEN None
    ELSE IF PairsGet(item.v, NameFields[k]) \notin {None, ""}
         THEN PairsGet(item.v, NameFields[k])
         ELSE FirstNameField(item, k + 1)

\* the line an item stands for
RenderedLine(item) ==
    IF item.t = "dict"
    THEN (IF FirstNameField(item, 1) # None THEN FirstNameField(item, 1) ELSE StrOf(item))
    ELSE item.v

\* the entries of the menu that state a day of the declared month and carry
\* n of the item keys, none of them with html
EntriesWithKeys(n) ==
    { k \in DOMAIN payload["days"] :
        LET entry == payload["days"][k]
        IN  /\ DayNumberOf(entry) \in
                  1..LastDayOfMonth(payload["year"], payload["month"] + 1)
            /\ "html" \notin DOMAIN entry
            /\ Cardinality({ i \in DOMAIN ItemKeys : ItemKeys[i] \in DOMAIN entry }) \in n }

\* an entry gives the event described by the rendered lines of its chosen
\* list, and no event when no key is populated
DescribedByChosenList(entry) ==
    LET chosen == ChosenList(entry, 1)
        events == EntryAlone(entry)
    IN  IF chosen = <<>> THEN events = <<>>
        ELSE /\ Len(events) = 1
             /\ events[1].description =
                    Join("\n", [i \in DOMAIN chosen |-> RenderedLine(chosen[i])])

\* C19: the item text of a day record comes from exactly one key, the first
\* of menu_items, items, recipes, menuItems, recipeItems whose value is not
\* empty: a key that is present but empty is passed over for a later
\* populated one, and the keys after the chosen one add nothing.
C19_FirstPopulatedKey ==
    (pc \in {"days_parsed", "days_parsed_simple"}
        /\ {"year", "month", "days"} \subseteq DOMAIN payload) =>
        \A k \in EntriesWithKeys(2..5) : DescribedByChosenList(payload["days"][k])

\* C20: an item that is a record is rendered as the value of the first of
\* its fields name, recipeName, text, label that is present and not empty,
\* or as the string rendering of the whole record when there is none; any
\* other item is rendered as its own string.
C20_NameFieldPreference ==
    (pc \in {"days_parsed", "days_parsed_simple"}
        /\ {"year", "month", "days"} \subseteq DOMAIN payload) =>
        \A k \in EntriesWithKeys({1}) : DescribedByChosenList(payload["days"][k])

\* C28: on a menu with a year, a zero-indexed month and a days list, the
\* two day-array extractors produce the same list of events: what either of
\* them returned is what the other returns for that menu.
C28_ExtractorsAgree ==
    {"year", "month", "days"} \subseteq DOMAIN payload =>
        /\ pc = "days_parsed" => all_events = parse_menu_days(payload, today)
        /\ pc = "days_parsed_simple" => all_events = parse_menu_to_events(payload)

\* ------------------------------------------------------------------------
\* fetch_menu_pdf.main (SpecPdf)
\* ------------------------------------------------------------------------
PdfLines ==
    { "Monday, January 15", "Tuesday, January 16 Tacos", "1/17/2025 Soup",
      "Pizza", "  Milk ", "" }

\* what the run meets: no URL typed in, a download that fails, or the lines
\* of the text extracted from the PDF
PdfInputs ==
    { [url |-> ""], [url |-> "https://menu.pdf", downloaded |-> FALSE] }
    \cup { [url |-> "https://menu.pdf", downloaded |-> TRUE, text |-> t] :
              t \in SeqsUpTo(PdfLines, MaxLines) }

InitPdf ==
    /\ today = MkDate(2025, 1, 15)
    /\ clock = 0
    /\ payload \in PdfInputs
    /\ pc = "start"
    /\ months_ahead = MonthsAheadDefault
    /\ menus = <<>>
    /\ all_events = <<>>
    /\ file \in {NoFile, OldFile}
    /\ exit_code = NoneInt
    /\ run = 1
    /\ first_file = NoFile

\* PDF_URL = input(...).strip(); if not PDF_URL: return
PdfAskUrl ==
    /\ pc = "start"
    /\ IF payload.url = ""
       THEN pc' = "no_url" /\ exit_code' = 0
       ELSE pc' = "url" /\ exit_code' = exit_code
    /\ UNCHANGED <<today, clock, payload, months_ahead, menus, all_events, file, run, first_file>>

\* pdf_bytes = parser.download_pdf(); if not pdf_bytes: return
PdfDownload ==
    /\ pc = "url"
    /\ IF payload.downloaded
       THEN pc' = "downloaded" /\ exit_code' = exit_code
       ELSE pc' = "no_pdf" /\ exit_code' = 0
    /\ UNCHANGED <<today, clock, payload, months_ahead, menus, all_events, file, run, first_file>>

\* text = extract_text_pdfplumber(...) or extract_text_pypdf2(...)
\* if not text: return; the text is saved to menu_text.txt
PdfExtractText ==
    /\ pc = "downloaded"
    /\ IF Join("\n", payload.text) = ""
       THEN pc' = "no_text" /\ exit_code' = 0
       ELSE pc' = "extracted" /\ exit_code' = exit_code
    /\ UNCHANGED <<today, clock, payload, months_ahead, menus, all_events, file, run, first_file>>

\* events = parser.parse_menu_text(text): year defaults to the current year
PdfParseText ==
    /\ pc = "extracted"
    /\ all_events' = parse_menu_text(payload.text, today.year)
    /\ pc' = "parsed"
    /\ UNCHANGED <<today, clock, payload, months_ahead, menus, file, exit_code, run, first_file>>

\* if events: success = generate_ics(events, OUTPUT_FILE), a message either
\* way; else: a message. main returns and the process ends with status 0
PdfGenerateIcs ==
    /\ pc = "parsed"
    /\ IF all_events # <<>>
       THEN \E success \in BOOLEAN :
               /\ generate_ics(all_events, "School Lunch Menu", success)
               /\ pc' = IF success THEN "done" ELSE "write_failed"
       ELSE pc' = "no_events" /\ UNCHANGED <<clock, file>>
    /\ exit_code' = 0
    /\ UNCHANGED <<today, payload, months_ahead, menus, all_events, run, first_file>>

NextPdf ==
    \/ PdfAskUrl
    \/ PdfDownload
    \/ PdfExtractText
    \/ PdfParseText
    \/ PdfGenerateIcs

SpecPdf == InitPdf /\ [][NextPdf]_vars

\* C12: a run that ends with zero parsed events, or in which writing the
\* calendar fails, ends with a nonzero exit status; a successful run ends
\* with status 0.
C12_FailureSignalled ==
    /\ pc \in {"no_events", "write_failed"} => exit_code \notin {0, NoneInt}
    /\ pc = "done" => exit_code = 0

\* --------------------------------------------------------------------------
\* SpecScan: PDFMenuParser.parse_menu_text on arbitrary texts and caller years
\* --------------------------------------------------------------------------

\* the year argument of parse_menu_text: the current year, and another one
CallerYears == {2023, 2025}

\* lines of a text: those of PdfLines, a line that states its own year, a
\* line whose numeric match does not parse, and a date in mid-line
TextLines ==
    PdfLines \cup {"Monday, January 15, 2023 Pizza", "13/45/2025 January 16 Tacos",
                   "Lunch Monday, January 15 Pizza"}

\* parse_menu_text(text, year) is called with any text and any year. The
\* numeric line "1/17/2025 Soup" is scanned under its own year only: under
\* another year the string handed to dateutil carries two years.
ScanInputs ==
    { [text |-> t, year |-> y] :
        t \in SeqsUpTo(TextLines, MaxLines), y \in CallerYears } \
    { in \in [text : SeqsUpTo(TextLines, MaxLines), year : CallerYears] :
        in.year # 2025 /\ \E i \in 1..Len(in.text) : in.text[i] = "1/17/2025 Soup" }

InitScan ==
    /\ today = MkDate(2025, 1, 15)
    /\ clock = 0
    /\ payload \in ScanInputs
    /\ pc = "text"
    /\ months_ahead = MonthsAheadDefault
    /\ menus = <<>>
    /\ all_events = <<>>
    /\ file = NoFile
    /\ exit_code = NoneInt
    /\ run = 1
    /\ first_file = NoFile

\* events = parser.parse_menu_text(text, year)
ScanText ==
    /\ pc = "text"
    /\ all_events' = parse_menu_text(payload.text, payload.year)
    /\ pc' = "scanned"
    /\ UNCHANGED <<today, clock, payload, months_ahead, menus, file, exit_code, run, first_file>>

NextScan == ScanText

SpecScan == InitScan /\ [][NextScan]_vars

\* the positions of the date lines of a text, in increasing order
IsDateLine(text, year, i) ==
    /\ Strip(text[i]) # ""
    /\ _extract_date_from_line(Strip(text[i]), year).found

DateLineSet(text, year) == { i \in 1..Len(text) : IsDateLine(text, year, i) }

RECURSIVE Ascending(_)
Ascending(S) ==
    IF S = {} THEN <<>>
    ELSE LET m == CHOOSE x \in S : \A y \in S : x <= y
         IN  <<m>> \o Ascending(S \ {m})

\* the position of the next date line after position j, or one past the end
NextDateLine(text, year, j) ==
    LET later == { i \in DateLineSet(text, year) : i > j }
    IN  IF later = {} THEN Len(text) + 1
        ELSE CHOOSE x \in later : \A y \in later : x <= y

\* the non-blank lines, stripped, between date line j and the next date line
FollowingLines(text, year, j) ==
    LET between == SubSeq(text, j + 1, NextDateLine(text, year, j) - 1)
        stripped == [i \in 1..Len(between) |-> Strip(between[i])]
    IN  SelectSeq(stripped, LAMBDA s : s # "")

\* what is left of date line j, when something is left
RestOfDateLine(text, j) ==
    LET remaining == _remove_date_from_line(Strip(text[j]))
    IN  IF remaining # "" THEN <<remaining>> ELSE <<>>

ContentOf(text, year, j) == RestOfDateLine(text, j) \o FollowingLines(text, year, j)

\* the date lines that have content, in input order
DatesWithContent(text, year) ==
    SelectSeq(Ascending(DateLineSet(text, year)),
              LAMBDA j : ContentOf(text, year, j) # <<>>)

\* C21: the descriptions of the events are, in input order, those of the
\* date lines that have content; each is the rest of its date line followed
\* by every non-blank line up to the next date line, in input order, so that
\* every content line is in the description of the event of the most recent
\* date line and in no other.
C21_ContentLinesKept ==
    pc = "scanned" =>
        LET owners == DatesWithContent(payload.text, payload.year)
        IN  /\ Len(all_events) = Len(owners)
            /\ \A e \in 1..Len(owners) :
                   all_events[e].description =
                       Join("\n", ContentOf(payload.text, payload.year, owners[e]))

\* a text with two date lines, the first followed by a content line
C21_Witness ==
    /\ pc = "scanned"
    /\ Len(all_events) = 2
    /\ \E j \in DateLineSet(payload.text, payload.year) :
           /\ FollowingLines(payload.text, payload.year, j) # <<>>
           /\ NextDateLine(payload.text, payload.year, j) <= Len(payload.text)

\* the position of the last date line of a text (0 when there is none)
LastDateLine(text, year) ==
    LET S == DateLineSet(text, year)
    IN  IF S = {} THEN 0 ELSE CHOOSE x \in S : \A y \in S : y <= x

DateOfLine(text, year, j) == _extract_date_from_line(Strip(text[j]), year).date

\* C22: when the last date line of the text has content, the last event of
\* the result is the event of that date and its description is that content:
\* the final day is flushed at end of input.
C22_LastDateFlushed ==
    pc = "scanned" =>
        LET j == LastDateLine(payload.text, payload.year)
        IN  (j # 0 /\ ContentOf(payload.text, payload.year, j) # <<>>) =>
                /\ all_events # <<>>
                /\ all_events[Len(all_events)].date =
                       DateOfLine(payload.text, payload.year, j)
                /\ all_events[Len(all_events)].description =
                       Join("\n", ContentOf(payload.text, payload.year, j))

\* a text that ends with the content lines of its last date line
C22_Witness ==
    /\ pc = "scanned"
    /\ LastDateLine(payload.text, payload.year) \in 1..(Len(payload.text) - 1)
    /\ Strip(payload.text[Len(payload.text)]) # ""
    /\ all_events # <<>>
    /\ all_events[Len(all_events)].date =
           DateOfLine(payload.text, payload.year, LastDateLine(payload.text, payload.year))

\* the position of the first date line of a text (0 when there is none)
FirstDateLine(text, year) ==
    LET S == DateLineSet(text, year)
    IN  IF S = {} THEN 0 ELSE CHOOSE x \in S : \A y \in S : x <= y

\* C23: the lines before the first date line are discarded: the result is
\* the result for the text that starts at its first date line, the first
\* event is described by the content of a date line alone, and a text with
\* no date line yields no event.
C23_LeadingLinesDiscarded ==
    pc = "scanned" =>
        LET first == FirstDateLine(payload.text, payload.year)
        IN  IF first = 0 THEN all_events = <<>>
            ELSE /\ all_events =
                        parse_menu_text(SubSeq(payload.text, first, Len(payload.text)),
                                        payload.year)
                 /\ all_events # <<>> =>
                        \E j \in DateLineSet(payload.text, payload.year) :
                            all_events[1].description =
                                Join("\n", ContentOf(payload.text, payload.year, j))

\* a text with a content line before its first date line, and an event
C23_Witness ==
    /\ pc = "scanned"
    /\ FirstDateLine(payload.text, payload.year) > 1
    /\ Strip(payload.text[1]) # ""
    /\ all_events # <<>>

\* a text of content lines only
C23_WitnessNoDate ==
    /\ pc = "scanned"
    /\ DateLineSet(payload.text, payload.year) = {}
    /\ \E i \in 1..Len(payload.text) : Strip(payload.text[i]) # ""

\* the text matched by the pattern that decides a date line
RECURSIVE MatchedFrom(_, _, _)
MatchedFrom(line, year, k) ==
    IF k > NumPatterns THEN None
    ELSE IF ReSearch(k, line) = None THEN MatchedFrom(line, year, k + 1)
    ELSE IF FuzzyParse(WithYear(ReSearch(k, line), year)).raised
    THEN MatchedFrom(line, year, k + 1)
    ELSE ReSearch(k, line)

MatchedDateText(line, year) == MatchedFrom(line, year, 1)

\* C24: the content recorded for a date line holds no part of the date text
\* that was matched in it, wherever in the line the match was, and a date
\* line of which nothing remains records no content line of its own.
C24_DateTextRemoved ==
    pc = "scanned" =>
        LET owners == DatesWithContent(payload.text, payload.year)
        IN  /\ \A e \in 1..Len(owners) :
                   e <= Len(all_events) =>
                       ~Contains(all_events[e].description,
                                 MatchedDateText(Strip(payload.text[owners[e]]),
                                                 payload.year))
            /\ \A j \in DateLineSet(payload.text, payload.year) :
                   Strip(payload.text[j]) =
                       MatchedDateText(Strip(payload.text[j]), payload.year)
                   => RestOfDateLine(payload.text, j) = <<>>

\* the outcome when the first pattern that matches the line decides alone
FirstMatchDate(line, year) ==
    LET matching == { k \in 1..NumPatterns : ReSearch(k, line) # None }
    IN  IF matching = {} THEN NoDate
        ELSE LET k == CHOOSE x \in matching : \A y \in matching : x <= y
                 parsed == FuzzyParse(WithYear(ReSearch(k, line), year))
             IN  IF parsed.raised THEN NoDate ELSE SomeDate(parsed.value)

\* C25: the first pattern, in priority order, that matches a line decides
\* it: every event is dated by the first matching pattern of some line of
\* the text, and a line whose first match cannot be resolved is no date line.
C25_FirstMatchDecides ==
    pc = "scanned" =>
        /\ \A e \in 1..Len(all_events) :
               \E i \in 1..Len(payload.text) :
                   /\ FirstMatchDate(Strip(payload.text[i]), payload.year).found
                   /\ FirstMatchDate(Strip(payload.text[i]), payload.year).date
                          = all_events[e].date
        /\ \A i \in 1..Len(payload.text) :
               Strip(payload.text[i]) # "" =>
                   (IsDateLine(payload.text, payload.year, i)
                        <=> FirstMatchDate(Strip(payload.text[i]), payload.year).found)

\* the years a line can state
StatedYears == 2020..2029

\* C26: the event of a date line that states a year is dated in that year,
\* whatever year the caller supplied, and the text handed to the date parser
\* for such a line is the matched text, without the caller's year appended.
C26_StatedYearWins ==
    pc = "scanned" =>
        LET owners == DatesWithContent(payload.text, payload.year)
        IN  \A e \in 1..Len(owners) : \A y \in StatedYears :
                (e <= Len(all_events)
                     /\ Contains(Strip(payload.text[owners[e]]), ToString(y)))
                => /\ all_events[e].date.year = y
                   /\ LET match == MatchedDateText(Strip(payload.text[owners[e]]),
                                                   payload.year)
                      IN  WithYear(match, payload.year) = match

\* C29: there is at most one event per date line; the events are dated, in
\* order, by the date lines that have content, and a date line with no
\* content (nothing left on its own line and no line before the next date
\* line or the end) has no event.
C29_OneEventPerDateLine ==
    pc = "scanned" =>
        LET owners == DatesWithContent(payload.text, payload.year)
            dateLines == DateLineSet(payload.text, payload.year)
            empty == { j \in dateLines : ContentOf(payload.text, payload.year, j) = <<>> }
        IN  /\ Len(all_events) <= Cardinality(dateLines)
            /\ Len(all_events) = Cardinality(dateLines) - Cardinality(empty)
            /\ [e \in 1..Len(all_events) |-> all_events[e].date]
                   = [k \in 1..Len(owners) |-> DateOfLine(payload.text, payload.year, owners[k])]

\* three date lines, one of them with no content, and two events
C29_Witness ==
    /\ pc = "scanned"
    /\ Cardinality(DateLineSet(payload.text, payload.year)) = 3
    /\ Len(all_events) = 2
    /\ all_events[1].date # all_events[2].date

====
